---- MODULE Spec2Model ----
(***************************************************************************)
(* Model of reduce-scan/main.cc: the OpenCL `reduce` kernel (work-item     *)
(* granularity), the profiling harness (main, opencl_main, profile_reduce, *)
(* profile_scan_inclusive) with the device at work-group granularity, and  *)
(* the pure function bandwidth().                                          *)
(***************************************************************************)
EXTENDS Integers, Sequences, FiniteSets, TLC

\* ---------------------------------------------------------------- bounds
MaxG == 7          \* largest work-group size explored by the kernel model
MaxGroups == 2     \* largest number of work-groups explored
MaxN == 8          \* largest number of work-items explored by the kernel model
MaxTime == 2       \* the clock takes the values 0, ClockStep, .., MaxTime*ClockStep
ClockStep == 500   \* nanoseconds between two modelled clock values

\* ------------------------------------------------------ program constants
loc_sz == 128              \* profile_reduce: int loc_sz = 128
BUFFSIZE == 1024           \* kernel source: #define BUFFSIZE 1024
Tolerance == 1000          \* profile_reduce: > 1e3
NsPerMicro == 1000         \* duration_cast<microseconds> of a nanosecond clock
SizeofFloat == 4           \* sizeof(float)
INT_MAX == 2147483647      \* 32-bit int
INT_MIN == -INT_MAX - 1
MainSize == 10485760       \* opencl_main: 1024*1024*10

VARIABLES
    \* ---- the reduce kernel (device side)
    m,            \* get_local_size(0)
    l,            \* get_num_groups(0)
    a,            \* global float* a
    result,       \* global float* result
    res_written,  \* which slots of result hold a value written by the kernel
    buff,         \* local float buff[BUFFSIZE], one per work-group
    pc,           \* position of every work-item, pc[k][t]
    offset,       \* private loop variable of every work-item
    k_sum,        \* private 'sum' of the work-item with global id 0
    j,            \* private loop index of the work-item with global id 0
    steps,        \* halving steps every work-group has completed
    acc,          \* accesses of every work-group since its last barrier
    res_log,      \* the writes made to every slot of result, in order
    parts,        \* how often every loaded element is counted in every slot of buff
    bars,         \* the barriers every work-item has called, in order
    \* ---- the device as the host sees it
    kstate,       \* "idle", "queued", "running", "complete"
    combined,     \* the cross-group combine has run
    \* ---- the host
    hpc,          \* position of the host thread
    n,            \* argument of profile_reduce / profile_scan_inclusive / bandwidth
    h_a,          \* profile_reduce: a
    h_result,     \* profile_reduce: result
    expected_result,
    sum,          \* profile_reduce: float sum
    now,          \* last value the clock returned
    ts,           \* t0..t4 of the running profile function
    ops,          \* accelerator operations called so far, in order
    out,          \* rows written to std::cout, in order
    err,          \* the exception in flight or reported
    exit_code,    \* -1 while running, then main's return value
    \* ---- bandwidth() on its own
    b_t0, b_t1, b_arg, b_ret, b_ov

kfine == <<buff, pc, offset, k_sum, j, steps, acc, res_log, parts, bars>>
kvars == <<m, l, a, result, res_written, kfine>>
dvars == <<kstate, combined>>
hvars == <<hpc, n, h_a, h_result, expected_result, sum, now, ts, ops, out, err, exit_code>>
bvars == <<b_t0, b_t1, b_arg, b_ret, b_ov>>
vars == <<kvars, dvars, hvars, bvars>>

\* ------------------------------------------------------------- helpers
Abs(x) == IF x < 0 THEN -x ELSE x

RECURSIVE Pow2(_)
Pow2(e) == IF e = 0 THEN 1 ELSE 2 * Pow2(e - 1)

RECURSIVE SumRange(_, _, _)
\* f[lo] + ... + f[hi-1]; the additions of the model are exact, so the order
\* in which they are made does not change the value
SumRange(f, lo, hi) ==
    IF hi <= lo THEN 0
    ELSE IF hi = lo + 1 THEN f[lo]
    ELSE SumRange(f, lo, (lo + hi) \div 2) + SumRange(f, (lo + hi) \div 2, hi)
\* f[0] + ... + f[cnt-1]
SumTo(f, cnt) == SumRange(f, 0, cnt)

\* Values an uninitialised float of device memory may hold
Garbage == {0, 2000}

\* random_vector<float>(size): the inputs explored
Ones(size) == [i \in 0..(size - 1) |-> 1]
Halves(size) == [i \in 0..(size - 1) |-> IF i < size \div 2 THEN 1 ELSE -1]
Bits(size) == [i \in 0..(size - 1) |-> Pow2(i)]
Ramp(size) == [i \in 0..(size - 1) |-> i + 1]

\* ------------------------------------------------ 32-bit int arithmetic
\* x + y leaves the range of int (undefined behaviour in C++)
AddOverflows(x, y) ==
    \/ (y > 0 /\ x > INT_MAX - y)
    \/ (y < 0 /\ x < INT_MIN - y)

\* x * y leaves the range of int (operands of the program are >= 0)
MulOverflows(x, y) == x # 0 /\ y # 0 /\ Abs(x) > INT_MAX \div Abs(y)

\* the two's-complement result of the add instruction
WrapAdd(x, y) ==
    IF y > 0 /\ x > INT_MAX - y THEN (x - INT_MAX - 1) + (y - INT_MAX - 1)
    ELSE IF y < 0 /\ x < INT_MIN - y THEN (x + INT_MAX + 1) + (y + INT_MAX + 1)
    ELSE x + y

\* 16-bit limbs of a 32-bit int in two's complement
Lo16(x) == x % 65536
Hi16(x) == (x \div 65536) % 65536
\* (p * q) mod 2^16 for 16-bit p, q, computed without leaving 2^31
MulMod16(p, q) == ((p % 256) * q + (((p \div 256) * q) % 256) * 256) % 65536
\* the upper 16 bits of the 32-bit product of 16-bit p, q
MulHi16(p, q) ==
    LET u == (p % 256) * q
        v == (p \div 256) * q
        low == u + (v % 256) * 256
    IN  (v \div 256 + low \div 65536) % 65536

\* the two's-complement result of the 32-bit multiply instruction
WrapMul(x, y) ==
    LET lo == MulMod16(Lo16(x), Lo16(y))
        hi == (MulHi16(Lo16(x), Lo16(y)) + MulMod16(Hi16(x), Lo16(y))
                 + MulMod16(Lo16(x), Hi16(y))) % 65536
    IN  IF hi < 32768 THEN hi * 65536 + lo ELSE (hi - 65536) * 65536 + lo

\* signed overflow is undefined: the wrapped value the instruction leaves, or
\* another int
Undefined(w) == {w, 0, -1}
IntAdd(x, y) == IF AddOverflows(x, y) THEN Undefined(WrapAdd(x, y)) ELSE {x + y}
IntMul(x, y) == IF MulOverflows(x, y) THEN Undefined(WrapMul(x, y)) ELSE {x * y}

\* C++ integer division truncates towards zero
TruncDiv(x, d) == IF x >= 0 THEN x \div d ELSE -((-x) \div d)

\* ------------------------------------------------------------ bandwidth
\* A double is kept as the exact quotient it was computed from:
\* ((wrap * 2^64 + bytes) * 1e-9) / (dt * 1e-6), and 'return 0' as 0 / 1.
ZeroBandwidth == [bytes |-> 0, wrap |-> 0, dt |-> 1]

\* line 29: duration_cast<microseconds>(t1 - t0).count()
Micros(d) == TruncDiv(d, NsPerMicro)

\* line 31: n+n+n, an int expression
Tripled(x) == UNION {IntAdd(s, x) : s \in IntAdd(x, x)}

\* lines 27-32; (n+n+n) is converted to size_t before the multiplication by
\* sizeof(float): a negative int becomes 2^64 + its value
bandwidth(x, t0, t1) ==
    LET dt == Micros(t1 - t0)
    IN  IF dt = 0 THEN {ZeroBandwidth}
        ELSE {[bytes |-> n3 * SizeofFloat,
               wrap |-> IF n3 < 0 THEN 1 ELSE 0,
               dt |-> dt] : n3 \in Tripled(x)}

\* the value of a bandwidth() result as a real number: its sign, finiteness
BwIsZero(b) == b.bytes = 0 /\ b.wrap = 0
BwNonNegative(b) == BwIsZero(b) \/ b.dt > 0
BwFinite(b) == b.dt # 0

\* line 99: the argument profile_reduce passes, n*n+n+n
ReduceBandwidthArg(size) ==
    UNION {UNION {IntAdd(s, size) : s \in IntAdd(p, size)} : p \in IntMul(size, size)}

\* line 116: the argument profile_scan_inclusive passes, n*n+n*n+n*n
ScanBandwidthArg(size) ==
    UNION {UNION {UNION {IntAdd(s, r) : s \in IntAdd(p, q)}
                  : r \in IntMul(size, size)}
           : <<p, q>> \in IntMul(size, size) \X IntMul(size, size)}

\* copy-in measured from t0: it overlaps the host interval
Durations_overlap(tt) ==
    <<tt[1] - tt[0], tt[4] - tt[1], tt[2] - tt[0], tt[3] - tt[2], tt[4] - tt[3]>>

\* lines 98 and 115: {t1-t0, t4-t1, t2-t1, t3-t2, t4-t3}
Durations(tt) ==
    <<tt[1] - tt[0], tt[4] - tt[1], tt[2] - tt[1], tt[3] - tt[2], tt[4] - tt[3]>>

\* lines 37-41: print writes duration_cast<microseconds>(dt[i]).count()
PrintedDurations(d) == [x \in 1..5 |-> Micros(d[x])]

\* operator<< of a float: six significant digits
RECURSIVE Scale6(_, _)
Scale6(x, s) == IF x \div s < 1000000 THEN s ELSE Scale6(x, s * 10)
Show(x) ==
    LET s == Scale6(Abs(x), 1)
        r == ((Abs(x) + s \div 2) \div s) * s
    IN  IF x < 0 THEN -r ELSE r

\* ------------------------------------------------- the reduce kernel
Groups == 0..(l - 1)
Locals == 0..(m - 1)

\* the loop test written as offset > 1
AfterTest_m(off) == IF off > 1 THEN "fold" ELSE "publish"

\* the loop test of line 142, taken after a barrier
AfterTest(off) == IF off > 0 THEN "fold" ELSE "publish"

\* an access of work-item t to element idx of buff, a or result
Access(t, mem, idx, kind) == [item |-> t, mem |-> mem, idx |-> idx, kind |-> kind]

\* the value a read finds: an element outside the array is undefined
ReadA(idx) == IF idx \in DOMAIN a THEN {a[idx]} ELSE Garbage
ReadBuff(k, idx) == IF idx \in DOMAIN buff[k] THEN {buff[k][idx]} ELSE Garbage
ReadResult(idx) ==
    IF idx \in DOMAIN result /\ res_written[idx] THEN {result[idx]} ELSE Garbage

\* line 138: buff[t] = a[k * m + t]; then the work-item waits at line 139
Load(k, t) ==
    /\ pc[k][t] = "load"
    /\ \E v \in ReadA(k * m + t) :
         buff' = [buff EXCEPT ![k] =
                    [x \in DOMAIN @ |-> IF x = t THEN v ELSE @[x]]]
    /\ acc' = [acc EXCEPT ![k] = @ \cup {Access(t, "a", k * m + t, "r"),
                                         Access(t, "buff", t, "w")}]
    /\ parts' = [parts EXCEPT ![k][t] =
                   [i \in Locals |-> IF i = t /\ k * m + t \in DOMAIN a THEN 1 ELSE 0]]
    /\ pc' = [pc EXCEPT ![k][t] = "barrier139"]
    /\ bars' = [bars EXCEPT ![k][t] = Append(@, 139)]
    /\ UNCHANGED <<dvars, hvars, bvars>>
    /\ UNCHANGED <<m, l, a, result, res_written, offset, k_sum, j, steps, res_log>>

\* line 139: barrier(CLK_LOCAL_MEM_FENCE); then line 142: offset = m / 2
Barrier139(k) ==
    /\ \A t \in Locals : pc[k][t] = "barrier139"
    /\ offset' = [offset EXCEPT ![k] = [t \in Locals |-> m \div 2]]
    /\ pc' = [pc EXCEPT ![k] = [t \in Locals |-> AfterTest(m \div 2)]]
    /\ acc' = [acc EXCEPT ![k] = {}]
    /\ UNCHANGED <<dvars, hvars, bvars>>
    /\ UNCHANGED <<m, l, a, result, res_written, buff, k_sum, j, steps, res_log>>
    /\ UNCHANGED <<parts, bars>>

\* the test of line 143 written as t + offset < m
Fold_all(k, t) ==
    /\ pc[k][t] = "fold"
    /\ IF t + offset[k][t] < m
         THEN /\ \E v \in ReadBuff(k, t + offset[k][t]) :
                   buff' = [buff EXCEPT ![k][t] = @ + v]
              /\ acc' = [acc EXCEPT ![k] = @ \cup
                           {Access(t, "buff", t, "r"),
                            Access(t, "buff", t + offset[k][t], "r"),
                            Access(t, "buff", t, "w")}]
              /\ parts' = [parts EXCEPT ![k][t] = [i \in Locals |->
                             IF t + offset[k][t] \in Locals
                               THEN @[i] + parts[k][t + offset[k][t]][i]
                               ELSE @[i]]]
         ELSE UNCHANGED <<buff, acc, parts>>
    /\ pc' = [pc EXCEPT ![k][t] = "barrier146"]
    /\ bars' = [bars EXCEPT ![k][t] = Append(@, 146)]
    /\ UNCHANGED <<dvars, hvars, bvars>>
    /\ UNCHANGED <<m, l, a, result, res_written, offset, k_sum, j, steps, res_log>>

\* lines 143-145: if (t < offset) buff[t] += buff[t + offset];
Fold(k, t) ==
    /\ pc[k][t] = "fold"
    /\ IF t < offset[k][t]
         THEN /\ \E v \in ReadBuff(k, t + offset[k][t]) :
                   buff' = [buff EXCEPT ![k][t] = @ + v]
              /\ acc' = [acc EXCEPT ![k] = @ \cup
                           {Access(t, "buff", t, "r"),
                            Access(t, "buff", t + offset[k][t], "r"),
                            Access(t, "buff", t, "w")}]
              /\ parts' = [parts EXCEPT ![k][t] = [i \in Locals |->
                             IF t + offset[k][t] \in Locals
                               THEN @[i] + parts[k][t + offset[k][t]][i]
                               ELSE @[i]]]
         ELSE UNCHANGED <<buff, acc, parts>>
    /\ pc' = [pc EXCEPT ![k][t] = "barrier146"]
    /\ bars' = [bars EXCEPT ![k][t] = Append(@, 146)]
    /\ UNCHANGED <<dvars, hvars, bvars>>
    /\ UNCHANGED <<m, l, a, result, res_written, offset, k_sum, j, steps, res_log>>

\* the loop written with offset -= 1 in place of offset /= 2
Barrier146_decrement(k) ==
    /\ \A t \in Locals : pc[k][t] = "barrier146"
    /\ offset' = [offset EXCEPT ![k] = [t \in Locals |-> offset[k][t] - 1]]
    /\ pc' = [pc EXCEPT ![k] = [t \in Locals |-> AfterTest(offset[k][t] - 1)]]
    /\ steps' = [steps EXCEPT ![k] = @ + 1]
    /\ acc' = [acc EXCEPT ![k] = {}]
    /\ UNCHANGED <<dvars, hvars, bvars>>
    /\ UNCHANGED <<m, l, a, result, res_written, buff, k_sum, j, res_log>>
    /\ UNCHANGED <<parts, bars>>

\* line 146: barrier(CLK_LOCAL_MEM_FENCE); then offset /= 2 and the loop test
Barrier146(k) ==
    /\ \A t \in Locals : pc[k][t] = "barrier146"
    /\ offset' = [offset EXCEPT ![k] = [t \in Locals |-> offset[k][t] \div 2]]
    /\ pc' = [pc EXCEPT ![k] = [t \in Locals |-> AfterTest(offset[k][t] \div 2)]]
    /\ steps' = [steps EXCEPT ![k] = @ + 1]
    /\ acc' = [acc EXCEPT ![k] = {}]
    /\ UNCHANGED <<dvars, hvars, bvars>>
    /\ UNCHANGED <<m, l, a, result, res_written, buff, k_sum, j, res_log>>
    /\ UNCHANGED <<parts, bars>>

\* line 149 without the if (t == 0) of line 148
Publish_all(k, t) ==
    /\ pc[k][t] = "publish"
    /\ result' = [result EXCEPT ![k] = buff[k][0]]
    /\ res_written' = [res_written EXCEPT ![k] = TRUE]
    /\ acc' = [acc EXCEPT ![k] = @ \cup {Access(t, "buff", 0, "r"),
                                         Access(t, "result", k, "w")}]
    /\ res_log' = [res_log EXCEPT ![k] =
                     Append(@, [item |-> k * m + t, at |-> "publish"])]
    /\ pc' = [pc EXCEPT ![k][t] = "barrier151"]
    /\ bars' = [bars EXCEPT ![k][t] = Append(@, 151)]
    /\ UNCHANGED <<dvars, hvars, bvars>>
    /\ UNCHANGED <<m, l, a, buff, offset, k_sum, j, steps, parts>>

\* the barrier of line 151 placed inside the if (t == 0) of line 148
Publish_divergent(k, t) ==
    /\ pc[k][t] = "publish"
    /\ IF t = 0
         THEN /\ result' = [result EXCEPT ![k] = buff[k][0]]
              /\ res_written' = [res_written EXCEPT ![k] = TRUE]
              /\ acc' = [acc EXCEPT ![k] = @ \cup {Access(t, "buff", 0, "r"),
                                                   Access(t, "result", k, "w")}]
              /\ res_log' = [res_log EXCEPT ![k] =
                               Append(@, [item |-> k * m + t, at |-> "publish"])]
              /\ pc' = [pc EXCEPT ![k][t] = "barrier151"]
              /\ bars' = [bars EXCEPT ![k][t] = Append(@, 151)]
         ELSE /\ pc' = [pc EXCEPT ![k][t] = "done"]
              /\ UNCHANGED <<result, res_written, acc, res_log, bars>>
    /\ UNCHANGED <<dvars, hvars, bvars>>
    /\ UNCHANGED <<m, l, a, buff, offset, k_sum, j, steps, parts>>

\* lines 148-150: if (t == 0) result[k] = buff[0];
Publish(k, t) ==
    /\ pc[k][t] = "publish"
    /\ IF t = 0
         THEN /\ result' = [result EXCEPT ![k] = buff[k][0]]
              /\ res_written' = [res_written EXCEPT ![k] = TRUE]
              /\ acc' = [acc EXCEPT ![k] = @ \cup {Access(t, "buff", 0, "r"),
                                                   Access(t, "result", k, "w")}]
              /\ res_log' = [res_log EXCEPT ![k] =
                               Append(@, [item |-> k * m + t, at |-> "publish"])]
         ELSE UNCHANGED <<result, res_written, acc, res_log>>
    /\ pc' = [pc EXCEPT ![k][t] = "barrier151"]
    /\ bars' = [bars EXCEPT ![k][t] = Append(@, 151)]
    /\ UNCHANGED <<dvars, hvars, bvars>>
    /\ UNCHANGED <<m, l, a, buff, offset, k_sum, j, steps, parts>>

\* line 151: barrier(CLK_GLOBAL_MEM_FENCE) waits for the work-items of the
\* calling work-group only; then lines 154-155: if (i == 0) { sum = 0; j = 0
Barrier151(k) ==
    /\ \A t \in Locals : pc[k][t] = "barrier151"
    /\ pc' = [pc EXCEPT ![k] = [t \in Locals |->
                 IF k * m + t = 0 THEN "combine" ELSE "done"]]
    /\ IF k = 0 THEN k_sum' = 0 /\ j' = 0 ELSE UNCHANGED <<k_sum, j>>
    /\ acc' = [acc EXCEPT ![k] = {}]
    /\ UNCHANGED <<dvars, hvars, bvars>>
    /\ UNCHANGED <<m, l, a, result, res_written, buff, offset, steps, res_log>>
    /\ UNCHANGED <<parts, bars>>

\* the loop of line 156 written with j <= l
CombineRead_le ==
    /\ pc[0][0] = "combine"
    /\ j <= l
    /\ \E v \in ReadResult(j) : k_sum' = k_sum + v
    /\ j' = j + 1
    /\ acc' = [acc EXCEPT ![0] = @ \cup {Access(0, "result", j, "r")}]
    /\ UNCHANGED <<dvars, hvars, bvars>>
    /\ UNCHANGED <<m, l, a, result, res_written, buff, pc, offset, steps, res_log>>
    /\ UNCHANGED <<parts, bars>>

\* lines 156-157: sum += result[j]; a slot nobody has written holds garbage
CombineRead ==
    /\ pc[0][0] = "combine"
    /\ j < l
    /\ \E v \in ReadResult(j) : k_sum' = k_sum + v
    /\ j' = j + 1
    /\ acc' = [acc EXCEPT ![0] = @ \cup {Access(0, "result", j, "r")}]
    /\ UNCHANGED <<dvars, hvars, bvars>>
    /\ UNCHANGED <<m, l, a, result, res_written, buff, pc, offset, steps, res_log>>
    /\ UNCHANGED <<parts, bars>>

\* line 158: result[0] = sum;
CombineWrite ==
    /\ pc[0][0] = "combine"
    /\ j >= l
    /\ result' = [result EXCEPT ![0] = k_sum]
    /\ res_written' = [res_written EXCEPT ![0] = TRUE]
    /\ acc' = [acc EXCEPT ![0] = @ \cup {Access(0, "result", 0, "w")}]
    /\ res_log' = [res_log EXCEPT ![0] = Append(@, [item |-> 0, at |-> "combine"])]
    /\ pc' = [pc EXCEPT ![0][0] = "done"]
    /\ UNCHANGED <<dvars, hvars, bvars>>
    /\ UNCHANGED <<m, l, a, buff, offset, k_sum, j, steps, parts, bars>>

KernelFinished == \A k \in Groups : \A t \in Locals : pc[k][t] = "done"

\* ------------------------------------- the kernel at work-group granularity
\* lines 142-147 for a whole work-group: one halving step after the other
RECURSIVE FoldLoop(_, _)
FoldLoop(b, off) ==
    IF off > 0
      THEN FoldLoop([t \in DOMAIN b |-> IF t < off THEN b[t] + b[t + off] ELSE b[t]],
                    off \div 2)
      ELSE b

\* lines 138-149: the value work-group k publishes
GroupSum(vec, size, k) ==
    FoldLoop([t \in 0..(size - 1) |-> vec[k * size + t]], size \div 2)[0]

\* the device takes the kernel command from the queue
DevStart ==
    /\ kstate = "queued"
    /\ kstate' = "running"
    /\ UNCHANGED <<m, l, a, result, res_written, kfine>>
    /\ UNCHANGED <<combined, hvars, bvars>>

\* lines 138-151 of work-group k: load, tree-fold, result[k] = buff[0]
DevPublish(k) ==
    /\ kstate = "running"
    /\ ~res_written[k]
    /\ result' = [result EXCEPT ![k] = GroupSum(a, m, k)]
    /\ res_written' = [res_written EXCEPT ![k] = TRUE]
    /\ UNCHANGED <<m, l, a, kfine>>
    /\ UNCHANGED <<dvars, hvars, bvars>>

\* lines 154-159: work-item 0 passes the barrier of line 151 once group 0 has
\* published, whatever the other groups have done; a slot not yet published
\* still holds the uninitialised content of d_result
DevCombine ==
    /\ kstate = "running"
    /\ res_written[0]
    /\ ~combined
    /\ \E g \in [Groups -> Garbage] :
         result' = [result EXCEPT ![0] =
            SumTo([k \in Groups |-> IF res_written[k] THEN result[k] ELSE g[k]], l)]
    /\ combined' = TRUE
    /\ UNCHANGED <<m, l, a, res_written, kfine>>
    /\ UNCHANGED <<kstate, hvars, bvars>>

\* every work-item has returned
DevFinish ==
    /\ kstate = "running"
    /\ combined
    /\ \A k \in Groups : res_written[k]
    /\ kstate' = "complete"
    /\ UNCHANGED <<kvars, combined, hvars, bvars>>

\* bandwidth() on its own takes no part in Spec and SpecKernel
BandwidthAbsent ==
    /\ b_t0 = 0 /\ b_t1 = 0 /\ b_arg = 0 /\ b_ov = FALSE
    /\ b_ret = ZeroBandwidth

\* ------------------------------------------------------------- the host
NoError == [kind |-> "none", op |-> "", sum |-> 0, expected |-> 0]
\* cl::Error thrown by the wrapper of an OpenCL call (CL_HPP_ENABLE_EXCEPTIONS)
ClError(op) == [kind |-> "cl::Error", op |-> op, sum |-> 0, expected |-> 0]

BadSize == 1000     \* a size the work-group size does not divide
\* the sizes profile_reduce is run with (opencl_main passes 1024*1024*10)
Sizes == {loc_sz * g : g \in 1..MaxGroups} \cup {BadSize}
\* random_vector<float>(n): the inputs explored by the harness
RandomVectors(size) == {Ones(size), Halves(size)}
\* the values clock_type::now() may return
ClockValues == {x * ClockStep : x \in 0..MaxTime}

hdata == <<n, h_a, h_result, expected_result, sum>>
hclock == <<now, ts>>
device == <<m, l, a, result, res_written, kfine, dvars>>

\* a call of the OpenCL wrapper at position 'at': it returns, or throws cl::Error
ClCall(at, op, next) ==
    /\ hpc = at
    /\ ops' = Append(ops, op)
    /\ \E ok \in BOOLEAN :
         IF ok THEN hpc' = next /\ err' = err
               ELSE hpc' = "main_catch" /\ err' = ClError(op)

\* auto tX = clock_type::now();
ClockRead(at, x, next) ==
    /\ hpc = at
    /\ \E v \in ClockValues :
         /\ v >= now
         /\ now' = v
         /\ ts' = [ts EXCEPT ![x] = v]
    /\ hpc' = next
    /\ UNCHANGED <<hdata, ops, out, err, exit_code, device, bvars>>

\* ---- main, lines 169-213
\* lines 172-179: cl::Platform::get; no platform: return 1
MainPlatforms ==
    /\ hpc = "main_platforms"
    /\ ops' = Append(ops, "clGetPlatformIDs")
    /\ \E r \in {"found", "empty", "throw"} :
         CASE r = "found" -> hpc' = "main_context" /\ UNCHANGED <<err, exit_code>>
           [] r = "empty" -> /\ hpc' = "exited"
                             /\ err' = [NoError EXCEPT !.kind = "no platform"]
                             /\ exit_code' = 1
           [] r = "throw" -> /\ hpc' = "main_catch"
                             /\ err' = ClError("clGetPlatformIDs")
                             /\ UNCHANGED exit_code
    /\ UNCHANGED <<hdata, hclock, out, device, bvars>>

\* lines 180-187: context and devices
MainContext ==
    /\ ClCall("main_context", "clCreateContextFromType", "main_build")
    /\ UNCHANGED <<hdata, hclock, out, exit_code, device, bvars>>

\* lines 188-198: program.build; on failure the build log is written and the
\* cl::Error is thrown again
MainBuild ==
    /\ ClCall("main_build", "clBuildProgram", "main_queue")
    /\ UNCHANGED <<hdata, hclock, out, exit_code, device, bvars>>

\* lines 199-201: command queue, then opencl_main(opencl)
MainQueue ==
    /\ ClCall("main_queue", "clCreateCommandQueue", "column_names")
    /\ UNCHANGED <<hdata, hclock, out, exit_code, device, bvars>>

\* handlers that report and fall through to 'return 0'
MainCatch_zero ==
    /\ hpc = "main_catch"
    /\ exit_code' = 0
    /\ hpc' = "exited"
    /\ UNCHANGED <<hdata, hclock, ops, out, err, device, bvars>>

\* lines 202-211: both handlers report and return 1
MainCatch ==
    /\ hpc = "main_catch"
    /\ exit_code' = 1
    /\ hpc' = "exited"
    /\ UNCHANGED <<hdata, hclock, ops, out, err, device, bvars>>

\* line 212: return 0
MainReturn ==
    /\ hpc = "main_return"
    /\ exit_code' = 0
    /\ hpc' = "exited"
    /\ UNCHANGED <<hdata, hclock, ops, out, err, device, bvars>>

\* ---- opencl_main, lines 119-124
HeaderRow == [name |-> "function", dt |-> <<>>, bw |-> <<>>]

\* line 121: print_column_names(); line 122: profile_reduce(size, opencl)
ColumnNames ==
    /\ hpc = "column_names"
    /\ out' = Append(out, HeaderRow)
    /\ \E size \in Sizes : n' = size
    /\ hpc' = "pr_init"
    /\ UNCHANGED <<h_a, h_result, expected_result, sum, hclock, ops, err,
                   exit_code, device, bvars>>

\* ---- profile_reduce, lines 70-100
\* lines 71-74: a = random_vector(n); Vector<float> result(n / loc_sz)
PR_Init ==
    /\ hpc = "pr_init"
    /\ h_a' \in RandomVectors(n)
    /\ h_result' = [k \in 0..((n \div loc_sz) - 1) |-> 0]
    /\ expected_result' = 0
    /\ hpc' = "pr_flush75"
    /\ UNCHANGED <<n, sum, hclock, ops, out, err, exit_code, device, bvars>>

\* line 75: opencl.queue.flush()
PR_Flush75 ==
    /\ ClCall("pr_flush75", "clFlush", "pr_kernel76")
    /\ UNCHANGED <<hdata, hclock, out, exit_code, device, bvars>>

\* line 76: cl::Kernel kernel(opencl.program, "reduce")
PR_Kernel76 ==
    /\ ClCall("pr_kernel76", "clCreateKernel", "pr_t0")
    /\ UNCHANGED <<hdata, hclock, out, exit_code, device, bvars>>

PR_T0 == ClockRead("pr_t0", 0, "pr_reduce78")

\* line 78: expected_result = reduce(a), the serial sum
PR_Reduce78 ==
    /\ hpc = "pr_reduce78"
    /\ expected_result' = SumTo(h_a, n)
    /\ hpc' = "pr_t1"
    /\ UNCHANGED <<n, h_a, h_result, sum, hclock, ops, out, err, exit_code,
                   device, bvars>>

PR_T1 == ClockRead("pr_t1", 1, "pr_buffer80")

\* line 80: cl::Buffer d_a(opencl.queue, begin(a), end(a), true) copies a
PR_Buffer80 ==
    /\ ClCall("pr_buffer80", "clCreateBuffer+copy", "pr_buffer81")
    /\ a' = IF hpc' = "pr_buffer81" THEN h_a ELSE a
    /\ UNCHANGED <<hdata, hclock, out, exit_code, bvars>>
    /\ UNCHANGED <<m, l, result, res_written, kfine, dvars>>

\* lines 81-83: d_result of result.size() floats, not initialised; setArg
PR_Buffer81 ==
    /\ ClCall("pr_buffer81", "clCreateBuffer", "pr_flush84")
    /\ IF hpc' = "pr_flush84"
         THEN /\ result' = [k \in DOMAIN h_result |-> 0]
              /\ res_written' = [k \in DOMAIN h_result |-> FALSE]
         ELSE UNCHANGED <<result, res_written>>
    /\ UNCHANGED <<hdata, hclock, out, exit_code, bvars>>
    /\ UNCHANGED <<m, l, a, kfine, dvars>>

\* line 84: opencl.queue.flush()
PR_Flush84 ==
    /\ ClCall("pr_flush84", "clFlush", "pr_t2")
    /\ UNCHANGED <<hdata, hclock, out, exit_code, device, bvars>>

PR_T2 == ClockRead("pr_t2", 2, "pr_enqueue86")

\* clEnqueueNDRangeKernel returns CL_INVALID_WORK_GROUP_SIZE when the local
\* size does not divide the global size (OpenCL 1.2, line 3)
RuntimeAccepts(global, local) == global % local = 0

\* line 86: enqueueNDRangeKernel(kernel, NullRange, NDRange(n), NDRange(loc_sz))
PR_Enqueue86 ==
    /\ hpc = "pr_enqueue86"
    /\ ops' = Append(ops, "clEnqueueNDRangeKernel")
    /\ \E ok \in BOOLEAN :
         IF ok /\ RuntimeAccepts(n, loc_sz)
           THEN /\ hpc' = "pr_flush87"
                /\ kstate' = "queued"
                /\ m' = loc_sz
                /\ l' = n \div loc_sz
                /\ err' = err
           ELSE /\ hpc' = "main_catch"
                /\ err' = ClError("clEnqueueNDRangeKernel")
                /\ UNCHANGED <<kstate, m, l>>
    /\ UNCHANGED <<hdata, hclock, out, exit_code, bvars>>
    /\ UNCHANGED <<a, result, res_written, kfine, combined>>

\* line 87: opencl.queue.flush(): clFlush submits the queued commands and
\* returns; it does not wait for them
PR_Flush87 ==
    /\ ClCall("pr_flush87", "clFlush", "pr_t3")
    /\ UNCHANGED <<hdata, hclock, out, exit_code, device, bvars>>

PR_T3 == ClockRead("pr_t3", 3, "pr_copy89")

\* a copy that returns as soon as the kernel has been enqueued
CopyReady_early == kstate # "idle"

\* cl::copy maps the buffer with a blocking call on the in-order queue: it
\* returns the data once the commands enqueued before it have completed
CopyReady == kstate = "complete"

\* line 89: cl::copy(opencl.queue, d_result, begin(result), end(result))
PR_Copy89 ==
    /\ hpc = "pr_copy89"
    /\ ops' = Append(ops, "clEnqueueMapBuffer")
    /\ \E ok \in BOOLEAN :
         IF ok
           THEN /\ CopyReady
                /\ h_result' = result
                /\ hpc' = "pr_t4"
                /\ err' = err
           ELSE /\ hpc' = "main_catch"
                /\ err' = ClError("clEnqueueMapBuffer")
                /\ UNCHANGED h_result
    /\ UNCHANGED <<n, h_a, expected_result, sum, hclock, out, exit_code,
                   device, bvars>>

PR_T4 == ClockRead("pr_t4", 4, "pr_validate91")

\* the comparison without std::abs
Invalid_noabs(expected, s) == expected - s > Tolerance

\* line 92: std::abs(expected_result - sum) > 1e3
Invalid(expected, s) == Abs(expected - s) > Tolerance

\* lines 91-99 without the test of line 92
PR_Validate91_nothrow ==
    /\ hpc = "pr_validate91"
    /\ sum' = h_result[0]
    /\ err' = err
    /\ hpc' = "pr_print97"
    /\ UNCHANGED <<n, h_a, h_result, expected_result, hclock, ops, out,
                   exit_code, device, bvars>>

\* lines 91-96: float sum = result[0]; throw std::runtime_error on a mismatch
PR_Validate91 ==
    /\ hpc = "pr_validate91"
    /\ sum' = h_result[0]
    /\ IF Invalid(expected_result, sum')
         THEN /\ err' = [kind |-> "runtime_error", op |-> "Invalid value",
                         sum |-> Show(sum'), expected |-> Show(expected_result)]
              /\ hpc' = "main_catch"
         ELSE /\ err' = err
              /\ hpc' = "pr_print97"
    /\ UNCHANGED <<n, h_a, h_result, expected_result, hclock, ops, out,
                   exit_code, device, bvars>>

\* lines 97-99: print("reduce", durations, {bandwidth(n*n+n+n, t0, t1),
\* bandwidth(n*n+n+n, t2, t3)}); then line 123
PR_Print97 ==
    /\ hpc = "pr_print97"
    /\ \E x \in ReduceBandwidthArg(n), y \in ReduceBandwidthArg(n) :
         \E b1 \in bandwidth(x, ts[0], ts[1]), b2 \in bandwidth(y, ts[2], ts[3]) :
           out' = Append(out, [name |-> "reduce",
                               dt |-> PrintedDurations(Durations(ts)),
                               bw |-> <<b1, b2>>])
    /\ hpc' = "ps_init"
    /\ UNCHANGED <<hdata, hclock, ops, err, exit_code, device, bvars>>

\* ---- profile_scan_inclusive, lines 102-117
\* lines 103-104: a = random_vector(n); result(a), expected_result(a)
PS_Init ==
    /\ hpc = "ps_init"
    /\ \E v \in RandomVectors(n) :
         /\ h_a' = v
         /\ h_result' = v
         /\ expected_result' = v
    /\ ts' = [x \in 0..4 |-> 0]
    /\ hpc' = "ps_t0"
    /\ UNCHANGED <<n, sum, now, ops, out, err, exit_code, device, bvars>>

PS_T0 == ClockRead("ps_t0", 0, "ps_scan106")

\* line 106: scan_inclusive(expected_result), the serial prefix sums in place
PS_Scan106 ==
    /\ hpc = "ps_scan106"
    /\ expected_result' = [x \in DOMAIN expected_result |->
                              SumTo(expected_result, x + 1)]
    /\ hpc' = "ps_t1"
    /\ UNCHANGED <<n, h_a, h_result, sum, hclock, ops, out, err, exit_code,
                   device, bvars>>

PS_T1 == ClockRead("ps_t1", 1, "ps_t2")
PS_T2 == ClockRead("ps_t2", 2, "ps_t3")
PS_T3 == ClockRead("ps_t3", 3, "ps_t4")
\* line 112 followed by the verify_vector call of line 113
PS_T4_verify ==
    /\ hpc = "ps_t4"
    /\ \E v \in ClockValues :
         /\ v >= now
         /\ now' = v
         /\ ts' = [ts EXCEPT ![4] = v]
    /\ IF expected_result # h_result
         THEN /\ hpc' = "main_catch"
              /\ err' = [NoError EXCEPT !.kind = "runtime_error"]
         ELSE /\ hpc' = "ps_print114"
              /\ err' = err
    /\ UNCHANGED <<hdata, ops, out, exit_code, device, bvars>>

PS_T4 == ClockRead("ps_t4", 4, "ps_print114")

\* lines 114-116: print("scan-inclusive", ...); then opencl_main and main return
PS_Print114 ==
    /\ hpc = "ps_print114"
    /\ \E x \in ScanBandwidthArg(n), y \in ScanBandwidthArg(n) :
         \E b1 \in bandwidth(x, ts[0], ts[1]), b2 \in bandwidth(y, ts[2], ts[3]) :
           out' = Append(out, [name |-> "scan-inclusive",
                               dt |-> PrintedDurations(Durations(ts)),
                               bw |-> <<b1, b2>>])
    /\ hpc' = "main_return"
    /\ UNCHANGED <<hdata, hclock, ops, err, exit_code, device, bvars>>

\* ---- the whole program: the host thread and the device
Init ==
    /\ hpc = "main_platforms"
    /\ n = 0 /\ h_a = <<>> /\ h_result = <<>>
    /\ expected_result = 0 /\ sum = 0 /\ now = 0
    /\ ts = [x \in 0..4 |-> 0]
    /\ ops = <<>> /\ out = <<>> /\ err = NoError /\ exit_code = -1
    /\ m = loc_sz /\ l = 0 /\ a = <<>> /\ result = <<>> /\ res_written = <<>>
    /\ buff = <<>> /\ pc = <<>> /\ offset = <<>> /\ k_sum = 0 /\ j = 0
    /\ steps = <<>> /\ acc = <<>> /\ res_log = <<>> /\ parts = <<>> /\ bars = <<>>
    /\ kstate = "idle" /\ combined = FALSE
    /\ BandwidthAbsent

Next ==
    \/ MainPlatforms
    \/ MainContext
    \/ MainBuild
    \/ MainQueue
    \/ MainCatch
    \/ MainReturn
    \/ ColumnNames
    \/ PR_Init
    \/ PR_Flush75
    \/ PR_Kernel76
    \/ PR_T0
    \/ PR_Reduce78
    \/ PR_T1
    \/ PR_Buffer80
    \/ PR_Buffer81
    \/ PR_Flush84
    \/ PR_T2
    \/ PR_Enqueue86
    \/ PR_Flush87
    \/ PR_T3
    \/ PR_Copy89
    \/ PR_T4
    \/ PR_Validate91
    \/ PR_Print97
    \/ PS_Init
    \/ PS_T0
    \/ PS_Scan106
    \/ PS_T1
    \/ PS_T2
    \/ PS_T3
    \/ PS_T4
    \/ PS_Print114
    \/ DevStart
    \/ \E k \in Groups : DevPublish(k)
    \/ DevCombine
    \/ DevFinish

Spec == Init /\ [][Next]_vars

\* ---- bandwidth() and the expressions passed to it, on their own
\* the sizes and the time points bandwidth() is applied to
BwSizes == {-1, 1, 2, 3, MainSize}
BwTimes == ClockValues \cup {NsPerMicro - 1, 2 * NsPerMicro + ClockStep}

\* evaluating n*n+n+n (line 99) leaves the range of int
ReduceArgOverflows(size) ==
    \/ MulOverflows(size, size)
    \/ \E p \in IntMul(size, size) :
         \/ AddOverflows(p, size)
         \/ \E s \in IntAdd(p, size) : AddOverflows(s, size)

InitBandwidth ==
    /\ hpc = "bw_start"
    /\ n \in BwSizes
    /\ b_t0 \in BwTimes
    /\ b_t1 \in BwTimes
    /\ b_arg = 0 /\ b_ov = FALSE /\ b_ret = ZeroBandwidth
    /\ h_a = <<>> /\ h_result = <<>>
    /\ expected_result = 0 /\ sum = 0 /\ now = 0
    /\ ts = [x \in 0..4 |-> 0]
    /\ ops = <<>> /\ out = <<>> /\ err = NoError /\ exit_code = -1
    /\ m = loc_sz /\ l = 0 /\ a = <<>> /\ result = <<>> /\ res_written = <<>>
    /\ buff = <<>> /\ pc = <<>> /\ offset = <<>> /\ k_sum = 0 /\ j = 0
    /\ steps = <<>> /\ acc = <<>> /\ res_log = <<>> /\ parts = <<>> /\ bars = <<>>
    /\ kstate = "idle" /\ combined = FALSE

bwframe == <<kvars, dvars, n, h_a, h_result, expected_result, sum, now, ts,
             ops, out, err, exit_code, b_t0, b_t1>>

\* line 99: the argument n*n+n+n of profile_reduce's calls; n is the size of
\* the vector made at line 72
BW_ReduceArg ==
    /\ hpc = "bw_start"
    /\ n >= 1
    /\ b_arg' \in ReduceBandwidthArg(n)
    /\ b_ov' = ReduceArgOverflows(n)
    /\ hpc' = "bw_reduce_call"
    /\ UNCHANGED <<bwframe, b_ret>>

\* bandwidth(n, t0, t1) called with n itself
BW_DirectArg ==
    /\ hpc = "bw_start"
    /\ b_arg' = n
    /\ b_ov' = FALSE
    /\ hpc' = "bw_direct_call"
    /\ UNCHANGED <<bwframe, b_ret>>

\* lines 27-32
BW_Call ==
    /\ hpc \in {"bw_reduce_call", "bw_direct_call"}
    /\ b_ret' \in bandwidth(b_arg, b_t0, b_t1)
    /\ hpc' = IF hpc = "bw_reduce_call" THEN "bw_reduce_done" ELSE "bw_direct_done"
    /\ UNCHANGED <<bwframe, b_arg, b_ov>>

NextBandwidth ==
    \/ BW_ReduceArg
    \/ BW_DirectArg
    \/ BW_Call

SpecBandwidth == InitBandwidth /\ [][NextBandwidth]_vars

\* ---- the kernel run on its own: every work-item is a process
\* the host, the device summary and bandwidth() take no part in SpecKernel
HostAbsent ==
    /\ hpc = "absent" /\ n = 0 /\ h_a = <<>> /\ h_result = <<>>
    /\ expected_result = 0 /\ sum = 0 /\ now = 0
    /\ ts = [x \in 0..4 |-> 0] /\ ops = <<>> /\ out = <<>>
    /\ err = NoError /\ exit_code = -1

\* the inputs of the kernel model: a launch of l groups of m work-items
KernelInputs(size) == {Ones(size), Halves(size), Bits(size)}

InitKernel ==
    /\ m \in 1..MaxG
    /\ l \in 1..MaxGroups
    /\ m * l <= MaxN
    /\ a \in KernelInputs(m * l)
    /\ result = [k \in Groups |-> 0]
    /\ res_written = [k \in Groups |-> FALSE]
    /\ buff = [k \in Groups |-> [t \in Locals |-> 0]]
    /\ pc = [k \in Groups |-> [t \in Locals |-> "load"]]
    /\ offset = [k \in Groups |-> [t \in Locals |-> 0]]
    /\ steps = [k \in Groups |-> 0]
    /\ acc = [k \in Groups |-> {}]
    /\ res_log = [k \in Groups |-> <<>>]
    /\ parts = [k \in Groups |-> [t \in Locals |-> [i \in Locals |-> 0]]]
    /\ bars = [k \in Groups |-> [t \in Locals |-> <<>>]]
    /\ k_sum = 0
    /\ j = 0
    /\ kstate = "running"
    /\ combined = FALSE
    /\ HostAbsent
    /\ BandwidthAbsent

NextKernel ==
    \/ \E k \in Groups : \E t \in Locals : Load(k, t)
    \/ \E k \in Groups : Barrier139(k)
    \/ \E k \in Groups : \E t \in Locals : Fold(k, t)
    \/ \E k \in Groups : Barrier146(k)
    \/ \E k \in Groups : \E t \in Locals : Publish(k, t)
    \/ \E k \in Groups : Barrier151(k)
    \/ CombineRead
    \/ CombineWrite

SpecKernel == InitKernel /\ [][NextKernel]_vars

\* the device keeps running work-items while one of them can take a step
FairSpecKernel == SpecKernel /\ WF_vars(NextKernel)

IsPowerOfTwo(x) == \E e \in 0..MaxN : x = Pow2(e)

\* C1: for a work-group size that is a power of two, when the reduce kernel
\* has finished result[0] equals the sum of all N input elements, under every
\* interleaving of work-items and work-groups.
C1_ResultIsSum ==
    (KernelFinished /\ IsPowerOfTwo(m)) => result[0] = SumTo(a, m * l)

\* C2: the work-item with global id 0 reads result[j] in the cross-group
\* combine only after local-id 0 of work-group j has written result[j].
C2_ReadAfterPublish ==
    [][(pc[0][0] = "combine" /\ j' = j + 1) => res_written[j]]_vars

\* ------------------------------------------------------------ the claims
Called(op) == \E x \in DOMAIN ops : ops[x] = op
Printed(name) == \E x \in DOMAIN out : out[x].name = name
LastRow == out[Len(out)]

\* C3: a size the work-group size does not divide is rejected with a
\* configuration error before the kernel is dispatched: profile_reduce never
\* issues the dispatch for it.
C3_RejectedBeforeDispatch ==
    n % loc_sz # 0 =>
        /\ ~Called("clEnqueueNDRangeKernel")
        /\ (hpc = "exited" => err.kind = "configuration error")

\* C4: profile_reduce throws an error carrying the computed and the expected
\* value exactly when |result[0] - expected| exceeds the tolerance; then no
\* 'reduce' row is printed; otherwise the row is printed and nothing is thrown.
C4_Validation ==
    /\ err.kind = "runtime_error" =>
          /\ Abs(expected_result - sum) > Tolerance
          /\ sum = h_result[0]
          /\ err.sum = Show(sum)
          /\ err.expected = Show(expected_result)
          /\ ~Printed("reduce")
    /\ hpc \in {"pr_print97", "ps_init"} =>
          /\ Abs(expected_result - sum) <= Tolerance
          /\ sum = h_result[0]
          /\ err = NoError
    /\ (hpc = "ps_init") => Printed("reduce")
    /\ Printed("reduce") => err.kind # "runtime_error"
C4_Witness ==
    /\ hpc = "exited"
    /\ err.kind = "runtime_error"
    /\ err.sum = sum
    /\ Abs(expected_result - sum) > Tolerance

\* C5: the flush after the kernel enqueue blocks: when t3 is taken the reduce
\* kernel has completed.
C5_FlushBlocks == hpc \in {"pr_t3", "pr_copy89"} => kstate = "complete"

\* C6: the host reads result[0] only after the kernel has completed: the value
\* it validates is the one the last device write left in slot 0.
C6_ReadAfterKernel ==
    /\ hpc \in {"pr_t4", "pr_validate91", "pr_print97"} =>
          /\ kstate = "complete"
          /\ combined
          /\ \A k \in Groups : res_written[k]
          /\ h_result[0] = result[0]
    /\ (hpc = "pr_print97" \/ err.kind = "runtime_error") =>
          /\ kstate = "complete"
          /\ sum = result[0]
C6_Witness == hpc = "pr_print97" /\ l > 1 /\ sum = result[0] /\ kstate = "complete"

\* C7: the bandwidth values of profile_reduce are computed from exactly
\* 3 * N * sizeof(float) bytes, and the computation of the byte volume does
\* not overflow int.
C7_ByteVolume ==
    hpc = "bw_reduce_done" =>
        /\ ~b_ov
        /\ b_ret # ZeroBandwidth =>
              (b_ret.wrap = 0 /\ b_ret.bytes = 3 * n * SizeofFloat)

\* C8: with a clock that never goes backwards the five reported durations are
\* non-negative, copy-in, kernel and copy-out are the adjacent intervals
\* [t1,t2], [t2,t3], [t3,t4], and their sum does not exceed the total [t1,t4].
C8_Durations ==
    (hpc = "ps_init" /\ Printed("reduce")) =>
        LET p == LastRow.dt IN
        /\ ts[0] <= ts[1] /\ ts[1] <= ts[2] /\ ts[2] <= ts[3] /\ ts[3] <= ts[4]
        /\ \A x \in 1..5 : p[x] >= 0
        /\ p[1] = Micros(ts[1] - ts[0])
        /\ p[2] = Micros(ts[4] - ts[1])
        /\ p[3] = Micros(ts[2] - ts[1])
        /\ p[4] = Micros(ts[3] - ts[2])
        /\ p[5] = Micros(ts[4] - ts[3])
        /\ p[3] + p[4] + p[5] <= p[2]
C8_Witness ==
    /\ hpc = "ps_init"
    /\ Printed("reduce")
    /\ ts[1] < ts[2] /\ ts[2] < ts[3]
    /\ LastRow.dt[3] + LastRow.dt[4] + LastRow.dt[5] < LastRow.dt[2]

\* C9: bandwidth returns 0 when the interval truncated to microseconds is 0,
\* never divides by zero, and otherwise returns a non-negative finite value.
C9_BandwidthRange ==
    hpc \in {"bw_direct_done", "bw_reduce_done"} =>
        /\ (Micros(b_t1 - b_t0) = 0 => b_ret = ZeroBandwidth)
        /\ BwFinite(b_ret)
        /\ BwNonNegative(b_ret)

\* C10: the process exits with 0 exactly when no error occurred; every error
\* ends it with 1, is not retried, and nothing runs after it (no later
\* accelerator call, no later phase, no scan-inclusive measurement).
C10_ExitCode ==
    /\ hpc = "exited" => (exit_code \in {0, 1} /\ (exit_code = 0 <=> err = NoError))
    /\ hpc # "exited" => exit_code = -1
    /\ err # NoError =>
          /\ hpc \in {"main_catch", "exited"}
          /\ ~Printed("scan-inclusive")
          /\ (err.kind = "cl::Error" => ops[Len(ops)] = err.op)
          /\ (err.kind = "runtime_error" => ~Printed("reduce"))
C10_Witness ==
    /\ hpc = "exited"
    /\ exit_code = 1
    /\ err = ClError("clEnqueueNDRangeKernel")
    /\ ~Printed("reduce")

\* the input with its elements rearranged by pi
Permuted(vec, pi) == [i \in DOMAIN vec |-> vec[pi[i]]]

\* the rearrangements of size elements that exchange two of them (or none)
Swaps(size) ==
    {[i \in 0..(size - 1) |-> IF i = p THEN q ELSE IF i = q THEN p ELSE i] :
        p \in 0..(size - 1), q \in 0..(size - 1)}

\* lines 128-160 when every group publishes before the combine loop reads
InOrderResult(vec) == SumTo([k \in Groups |-> GroupSum(vec, m, k)], l)

\* C11: for a work-group size that is a power of two, the value a finished
\* reduce kernel leaves in result[0] is the value it leaves for every
\* rearrangement of the same input, under every interleaving.
C11_PermutationInvariant ==
    (KernelFinished /\ IsPowerOfTwo(m)) =>
        \A pi \in Swaps(m * l) : result[0] = InOrderResult(Permuted(a, pi))

\* the largest e with 2^e <= x
Log2(x) == CHOOSE e \in 0..MaxN : Pow2(e) <= x /\ x < Pow2(e + 1)

\* every work-item of work-group k has left the loop of lines 142-147
LoopEnded(k) ==
    \A t \in Locals : pc[k][t] \in {"publish", "barrier151", "combine", "done"}

\* work-item t of work-group k is inside the loop of lines 142-147
InLoop(k, t) == pc[k][t] \in {"fold", "barrier146"}

\* C12: in a work-group whose size G is a power of two the tree-fold runs
\* with offset G/2, G/4, ..., 1, exactly log2(G) halving steps in all, and
\* when it ends buff[0] is the sum of the G elements the group loaded, each
\* element counted exactly once.
C12_TreeFold ==
    \A k \in Groups :
        IsPowerOfTwo(m) =>
            /\ \A t \in Locals :
                 InLoop(k, t) => offset[k][t] * Pow2(steps[k] + 1) = m
            /\ LoopEnded(k) =>
                 /\ steps[k] = Log2(m)
                 /\ buff[k][0] = SumRange(a, k * m, k * m + m)
                 /\ \A i \in Locals : parts[k][0][i] = 1

C12_Witness ==
    /\ m = 4
    /\ a = Bits(m * l)
    /\ LoopEnded(0)
    /\ steps[0] = 2
    /\ buff[0][0] = 15

\* C13: for every work-group size G >= 1 the halving loop ends, with offset 0
\* after floor(log2 G) steps; when it has ended buff[0] counts every loaded
\* element exactly once if and only if G is a power of two: for any other G
\* at least one loaded element was never added into buff[0], and for the
\* input 1, 2, 4, ... buff[0] differs from the sum of the group's elements.
C13_PowerOfTwoNeeded ==
    /\ [](\A k \in Groups :
            LoopEnded(k) =>
              /\ \A t \in Locals : offset[k][t] = 0
              /\ steps[k] = Log2(m)
              /\ IsPowerOfTwo(m) <=> (\A i \in Locals : parts[k][0][i] = 1)
              /\ ~IsPowerOfTwo(m) => (\E i \in Locals : parts[k][0][i] = 0)
              /\ (~IsPowerOfTwo(m) /\ a = Bits(m * l)) =>
                    buff[k][0] # SumRange(a, k * m, k * m + m))
    /\ <>(\A k \in Groups : LoopEnded(k))

C13_Witness ==
    /\ m = 6
    /\ a = Bits(m * l)
    /\ LoopEnded(0)
    /\ steps[0] = 2
    /\ buff[0][0] = 27
    /\ parts[0][0][2] = 0

\* work-item t of work-group k waits at a barrier
AtBarrier(k, t) == pc[k][t] \in {"barrier139", "barrier146", "barrier151"}

\* work-item t of work-group k is past the barrier of line 151
PastBarriers(k, t) == pc[k][t] \in {"combine", "done"}

\* the barrier calls of lines 139, 146 (once per halving step) and 151
BarrierCalls(halvings) == <<139>> \o [i \in 1..halvings |-> 146] \o <<151>>

IsPrefix(s, t) == Len(s) <= Len(t) /\ SubSeq(t, 1, Len(s)) = s

\* C14: the work-items of a work-group call the same barriers in the same
\* order whatever their local id (line 139 once, line 146 once per halving
\* step, line 151 once): two work-items of a group never wait at different
\* barriers, none has finished while another still waits, and under a fair
\* device every work-item of every group eventually finishes the kernel.
C14_UniformBarriers ==
    /\ [](\A k \in Groups : \A t \in Locals :
            /\ IsPrefix(bars[k][t], BarrierCalls(Log2(m)))
            /\ PastBarriers(k, t) => bars[k][t] = BarrierCalls(Log2(m))
            /\ \A u \in Locals :
                 /\ IsPrefix(bars[k][t], bars[k][u]) \/ IsPrefix(bars[k][u], bars[k][t])
                 /\ (AtBarrier(k, t) /\ AtBarrier(k, u)) => pc[k][t] = pc[k][u]
                 /\ AtBarrier(k, t) => ~PastBarriers(k, u))
    /\ <>[]KernelFinished

C14_Witness ==
    /\ KernelFinished
    /\ m = 4
    /\ l = 2
    /\ bars[1][3] = <<139, 146, 146, 151>>

\* the accesses to buff that work-group k made since its last barrier
BuffAccesses(k) == {x \in acc[k] : x.mem = "buff"}

\* C15: between two consecutive barriers no slot of buff is written by one
\* work-item and read or written by another work-item of the same group; in a
\* halving step with a given offset the written slots lie in [0, offset) and
\* the slots in [offset, 2 * offset) are only read.
C15_NoBuffRace ==
    \A k \in Groups :
        /\ \A x \in BuffAccesses(k) : \A y \in BuffAccesses(k) :
             (x.idx = y.idx /\ x.item # y.item) => (x.kind = "r" /\ y.kind = "r")
        /\ \A t \in Locals : InLoop(k, t) =>
             \A x \in BuffAccesses(k) :
                /\ x.kind = "w" => (0 <= x.idx /\ x.idx < offset[k][t])
                /\ x.kind = "r" => (0 <= x.idx /\ x.idx < 2 * offset[k][t])

C15_Witness ==
    /\ m = 4
    /\ offset[0][0] = 2
    /\ pc[0][0] = "barrier146"
    /\ pc[0][1] = "barrier146"
    /\ Access(0, "buff", 2, "r") \in acc[0]
    /\ Access(0, "buff", 0, "w") \in acc[0]
    /\ Access(1, "buff", 1, "w") \in acc[0]

\* C16: when G divides N and G <= BUFFSIZE every memory access of the reduce
\* kernel is in bounds: an index into buff is below G, an index into a is
\* below N, and an index into result is below N / G, the length of result.
C16_InBounds ==
    (m <= BUFFSIZE /\ m * l = Cardinality(DOMAIN a)) =>
        \A k \in Groups : \A x \in acc[k] :
            /\ x.mem = "buff" =>
                 (0 <= x.idx /\ x.idx < m /\ x.idx < BUFFSIZE /\ x.idx \in DOMAIN buff[k])
            /\ x.mem = "a" =>
                 (0 <= x.idx /\ x.idx < m * l /\ x.idx \in DOMAIN a)
            /\ x.mem = "result" =>
                 (0 <= x.idx /\ x.idx < l /\ x.idx \in DOMAIN result)

C16_Witness ==
    /\ m = 4
    /\ l = 2
    /\ pc[0][0] = "done"
    /\ Access(0, "result", l - 1, "r") \in acc[0]
    /\ Access(0, "result", 0, "w") \in acc[0]
    /\ pc[1][3] = "barrier139"
    /\ Access(3, "a", m * l - 1, "r") \in acc[1]
    /\ Access(3, "buff", m - 1, "w") \in acc[1]

\* the writes to result[k] made at line 149 (publish) or line 158 (combine)
WritesAt(k, step) == {x \in DOMAIN res_log[k] : res_log[k][x].at = step}

\* C17: result[k] is written in the publish step by exactly one work-item,
\* the one with local id 0 of group k; only the work-item with global id 0
\* executes the combine and writes its result; slot 0 is the only slot
\* written twice, both times by that work-item, and no other slot is written
\* by anyone else or more than once.
C17_SingleWriter ==
    /\ \A k \in Groups :
         /\ \A x \in WritesAt(k, "publish") : res_log[k][x].item = k * m
         /\ \A x \in WritesAt(k, "combine") : k = 0 /\ res_log[k][x].item = 0
         /\ Cardinality(WritesAt(k, "publish")) <= 1
         /\ pc[k][0] \in {"barrier151", "combine", "done"} =>
                Cardinality(WritesAt(k, "publish")) = 1
         /\ k # 0 => Len(res_log[k]) <= 1
         /\ \A t \in Locals : pc[k][t] = "combine" => (k = 0 /\ t = 0)
    /\ Len(res_log[0]) <= 2
    /\ Len(res_log[0]) = 2 =>
         (res_log[0][1].at = "publish" /\ res_log[0][2].at = "combine")
    /\ KernelFinished => Len(res_log[0]) = 2

C17_Witness ==
    /\ KernelFinished
    /\ m = 2
    /\ l = 2
    /\ res_log[0] = <<[item |-> 0, at |-> "publish"], [item |-> 0, at |-> "combine"]>>
    /\ res_log[1] = <<[item |-> 2, at |-> "publish"]>>

\* the positions of the column-header row, and of the rows of one function
HeaderRows == {x \in DOMAIN out : out[x] = HeaderRow}
RowsOf(name) == {x \in DOMAIN out : out[x].name = name}

\* C18 as stated: in every run, whatever its end, the column-header row is
\* printed exactly once and before any data row, the 'reduce' row comes
\* before the 'scan-inclusive' row, and the 'scan-inclusive' row is printed
\* only if the reduce measurement passed validation.
C18_HeaderInEveryRun ==
    /\ hpc = "exited" => Cardinality(HeaderRows) = 1
    /\ Cardinality(HeaderRows) <= 1
    /\ out # <<>> => out[1] = HeaderRow
    /\ \A x \in RowsOf("reduce") : \A y \in RowsOf("scan-inclusive") : x < y
    /\ Printed("scan-inclusive") => (Printed("reduce") /\ err.kind # "runtime_error")

\* C18 (amended): a run that ends before opencl_main prints nothing; in every
\* run that reaches opencl_main the column-header row is printed exactly once
\* and before any data row. The 'reduce' row is printed before the
\* 'scan-inclusive' row, the 'reduce' row only when the test of line 92
\* passed, and the 'scan-inclusive' row only after the 'reduce' row.
C18_RowOrder ==
    /\ [](/\ Cardinality(HeaderRows) <= 1
          /\ out # <<>> => out[1] = HeaderRow
          /\ hpc \in {"main_platforms", "main_context", "main_build",
                      "main_queue", "column_names"} => out = <<>>
          /\ Cardinality(RowsOf("reduce")) <= 1
          /\ Cardinality(RowsOf("scan-inclusive")) <= 1
          /\ \A x \in RowsOf("reduce") : \A y \in RowsOf("scan-inclusive") : x < y
          /\ Printed("scan-inclusive") =>
                (Printed("reduce") /\ err.kind # "runtime_error"))
    /\ [][/\ hpc = "column_names" => Cardinality(HeaderRows') = 1
          /\ Cardinality(HeaderRows) = 1 => Cardinality(HeaderRows') = 1
          /\ (Printed("reduce")' /\ ~Printed("reduce")) =>
                (hpc = "pr_print97" /\ ~Invalid(expected_result, sum))
          /\ (Printed("scan-inclusive")' /\ ~Printed("scan-inclusive")) =>
                Printed("reduce")]_vars

C18_Witness ==
    /\ hpc = "exited"
    /\ exit_code = 0
    /\ Len(out) = 3
    /\ out[1] = HeaderRow
    /\ out[2].name = "reduce"
    /\ out[3].name = "scan-inclusive"

\* the host is inside profile_scan_inclusive, lines 102-117
InScan ==
    hpc \in {"ps_init", "ps_t0", "ps_scan106", "ps_t1", "ps_t2", "ps_t3",
             "ps_t4", "ps_print114"}

\* C19: profile_scan_inclusive issues no accelerator call and checks nothing:
\* no step of it raises an error or leaves through a handler, whatever the
\* host scan produced; the device state and the queue stay as they were; and
\* it returns having printed exactly one 'scan-inclusive' row.
C19_ScanFrame ==
    /\ [][InScan =>
            /\ ops' = ops
            /\ err' = err
            /\ exit_code' = exit_code
            /\ device' = device
            /\ hpc' # "main_catch"
            /\ out' # out => (hpc = "ps_print114" /\ hpc' = "main_return")]_vars
    /\ [][hpc' = "main_return" => hpc = "ps_print114"]_vars
    /\ [](InScan => (err = NoError /\ ~Printed("scan-inclusive")))
    /\ [](hpc = "main_return" =>
            /\ err = NoError
            /\ Cardinality(RowsOf("scan-inclusive")) = 1
            /\ LastRow.name = "scan-inclusive")

C19_Witness ==
    /\ hpc = "main_return"
    /\ expected_result # h_result
    /\ expected_result # h_a
    /\ LastRow.name = "scan-inclusive"
    /\ err = NoError

====
